---- MODULE Spec2Model ----
(***************************************************************************)
(* Model of pylspclient's LspClient (src/pylspclient/lsp_client.py).       *)
(*                                                                         *)
(* LspClient holds one field, lsp_endpoint, and every method is a          *)
(* synchronous handler over it: it may start or stop the endpoint, sends   *)
(* one request (call_method) or notification (send_notification), and      *)
(* decodes the reply.  The endpoint and the pydantic structs are           *)
(* collaborators: the endpoint is the environment (each of its operations  *)
(* either succeeds or raises, a request is answered with any JSON value of *)
(* the reply catalogue), the structs' validation is structural.            *)
(*                                                                         *)
(* Encoding.  A Python value is a record [t, v].  A Python dict / kwargs   *)
(* is a set of <<key, value>> pairs.  A JSON reply is a record             *)
(* [t, o, a, ch]: t its kind (null, obj, arr), o the object's              *)
(* <<key, value>> pairs, a the array's elements (or the array under the    *)
(* object's "items" key), ch the mapping under the object's "changes" key. *)
(***************************************************************************)
EXTENDS Integers, Sequences, FiniteSets

VARIABLES
    last,       \* the last invocation: [op, args, result]
    wire,       \* the endpoint operations the last invocation performed, in order
    reply,      \* the reply the endpoint gave to the last invocation's request
    fault,      \* what the endpoint raised during the last invocation ("": nothing)
    handshake   \* history: how far the initialize / initialized handshake got

vars == <<last, wire, reply, fault, handshake>>

\* ------------------------------------------------------------------ bounds

MaxReplyLen == 2    \* longest reply array
MaxEdits == 2       \* most TextEdits per URI in a rename reply

\* ---------------------------------------------------------- Python values

None == [t |-> "none", v |-> ""]
PyStr(s) == [t |-> "str", v |-> s]
PyInt(s) == [t |-> "int", v |-> s]
PyModel(s) == [t |-> "model", v |-> s]
PyDict(s) == [t |-> "dict", v |-> s]
PyList(s) == [t |-> "list", v |-> s]

\* BaseModel.dict() / BaseModel.model_dump(by_alias=True): the plain mapping
\* of a typed value.
model_dump(x) == [t |-> "dict", v |-> x.v]

\* dict helpers (a dict is a set of <<key, value>> pairs with distinct keys)
Has(d, k) == \E p \in d : p[1] = k
Get(d, k) == (CHOOSE p \in d : p[1] = k)[2]
Keys(d) == {p[1] : p \in d}

\* ------------------------------------------------------------ JSON values

NoSeq == << >>
Bad == "!"          \* a value of the wrong primitive type for its key

ObjElem(o) == [t |-> "obj", s |-> "", o |-> o]
StrElem(s) == [t |-> "str", s |-> s, o |-> {}]

JNull == [t |-> "null", o |-> {}, a |-> NoSeq, ch |-> {}]
JObj(o) == [t |-> "obj", o |-> o, a |-> NoSeq, ch |-> {}]
JArr(a) == [t |-> "arr", o |-> {}, a |-> a, ch |-> {}]
\* an object whose "items" key holds the array a
JItems(o, a) == [t |-> "obj", o |-> o \cup {<<"items", "@a">>}, a |-> a, ch |-> {}]
\* an object whose "changes" key holds the mapping ch
JChanges(o, ch) == [t |-> "obj", o |-> o \cup {<<"changes", "@ch">>}, a |-> NoSeq, ch |-> ch]
\* no request was answered
NoReply == [t |-> "none", o |-> {}, a |-> NoSeq, ch |-> {}]

\* Sequences over S of length at most n
SeqsUpTo(S, n) == UNION {[1..k -> S] : k \in 0..n}

\* Some enumeration of a finite set (the iteration order of a dict's keys)
RECURSIVE SeqOf(_)
SeqOf(S) == IF S = {} THEN << >> ELSE LET x == CHOOSE y \in S : TRUE IN <<x>> \o SeqOf(S \ {x})

\* ------------------------------------------------- pydantic struct shapes

Location == [name |-> "Location", req |-> {"uri", "range"}, opt |-> {}]
LocationLink ==
    [name |-> "LocationLink",
     req |-> {"targetUri", "targetRange", "targetSelectionRange"},
     opt |-> {"originSelectionRange"}]
DocumentSymbol ==
    [name |-> "DocumentSymbol",
     req |-> {"name", "kind", "range", "selectionRange"},
     opt |-> {"detail", "deprecated", "children"}]
SymbolInformation ==
    [name |-> "SymbolInformation",
     req |-> {"name", "kind", "location"},
     opt |-> {"containerName", "deprecated"}]
CompletionItem == [name |-> "CompletionItem", req |-> {"label"}, opt |-> {"kind", "detail"}]
CompletionList == [name |-> "CompletionList", req |-> {"isIncomplete", "items"}, opt |-> {}]
SignatureHelp ==
    [name |-> "SignatureHelp", req |-> {"signatures"}, opt |-> {"activeSignature", "activeParameter"}]

\* T.model_validate(e) succeeds: e is an object, every required field is
\* present, and every field of T that is present has its type.  Unknown fields
\* are ignored.
Valid(T, e) ==
    /\ e.t = "obj"
    /\ T.req \subseteq Keys(e.o)
    /\ \A p \in e.o : p[1] \in (T.req \cup T.opt) => p[2] # Bad

\* The instance T.model_validate(e) builds: T's fields of e, nothing else.
Validated(T, e) == [type |-> T.name, f |-> {p \in e.o : p[1] \in (T.req \cup T.opt)}]

AllValid(T, es) == \A i \in 1..Len(es) : Valid(T, es[i])
ValidatedAll(T, es) == [i \in 1..Len(es) |-> Validated(T, es[i])]

\* --------------------------------------------------------- reply catalogue

eLoc1 == ObjElem({<<"uri", "file:///a.py">>, <<"range", "r1">>})
eLink ==
    ObjElem({<<"targetUri", "file:///a.py">>, <<"targetRange", "r1">>,
             <<"targetSelectionRange", "r2">>})
eLocLink ==
    ObjElem({<<"uri", "file:///a.py">>, <<"range", "r1">>, <<"targetUri", "file:///a.py">>,
             <<"targetRange", "r1">>, <<"targetSelectionRange", "r2">>})
eBadLoc == ObjElem({<<"uri", Bad>>, <<"range", "r1">>})
eDocSym ==
    ObjElem({<<"name", "f">>, <<"kind", "12">>, <<"range", "r1">>,
             <<"selectionRange", "r2">>, <<"children", "[]">>})
eSymInfo ==
    ObjElem({<<"name", "f">>, <<"kind", "12">>, <<"location", "l1">>,
             <<"containerName", "">>})
eDocSymInfo ==
    ObjElem({<<"name", "g">>, <<"kind", "12">>, <<"range", "r1">>,
             <<"selectionRange", "r2">>, <<"location", "l1">>})
eItem == ObjElem({<<"label", "x">>})
eItem2 == ObjElem({<<"label", "y">>, <<"kind", "3">>, <<"isIncomplete", "true">>})
eJunk == ObjElem({<<"foo", "bar">>})

LocationElems == {eLoc1, eLink, eLocLink, StrElem("uri")}
SymbolElems == {eDocSym, eSymInfo, eDocSymInfo, eJunk}
CompletionElems == {eItem, eItem2, eJunk, StrElem("isIncomplete")}
ItemElems == {eItem, eItem2, eJunk}

\* the wire edits of a rename reply
Pos(l, c) == [line |-> l, character |-> c]
WireEdit(s, e, txt, has) == [range |-> [start |-> s, end |-> e], newText |-> txt, has |-> has]
WireEdits ==
    {WireEdit(Pos(0, 0), Pos(0, 1), "x", {"range", "newText"}),
     WireEdit(Pos(2, 4), Pos(3, 0), "", {"range", "newText"})}
\* an edit without its newText key
BrokenEdit == WireEdit(Pos(1, 1), Pos(1, 1), "", {"range"})
Uris == {"file:///a.py", "file:///b.py"}
\* the mappings uri -> edits: each URI absent or bound to a sequence of edits
Changes ==
    {{<<u, f[u]>> : u \in us} : us \in SUBSET Uris, f \in [Uris -> SeqsUpTo(WireEdits, MaxEdits)]}

\* replies of any method: null, an empty object, an object of unknown keys,
\* an empty array
CommonReplies == {JNull, JObj({}), JObj({<<"foo", "bar">>}), JArr(<< >>)}

LocationReplies ==
    CommonReplies
        \cup {JObj(o) : o \in {eLoc1.o, eLocLink.o, eLink.o, eBadLoc.o, {<<"uri", "file:///a.py">>}}}
        \cup {JArr(<<eJunk>>), JArr(<<eBadLoc>>), JArr(<<eLoc1, eBadLoc>>)}
        \cup {JArr(a) : a \in SeqsUpTo(LocationElems, MaxReplyLen)}

SymbolReplies ==
    CommonReplies
        \cup {JObj(eDocSym.o)}
        \cup {JArr(a) : a \in SeqsUpTo(SymbolElems, MaxReplyLen)}

CompletionReplies ==
    CommonReplies
        \cup {JObj({<<"isIncomplete", "true">>})}
        \cup {JArr(a) : a \in SeqsUpTo(CompletionElems, MaxReplyLen)}
        \cup {JItems(o, a) : o \in {{}, {<<"isIncomplete", "true">>}},
                             a \in SeqsUpTo(ItemElems, MaxReplyLen)}
        \cup {JItems({<<"isIncomplete", Bad>>}, <<eItem>>)}

SignatureReplies ==
    CommonReplies
        \cup {JObj(o) : o \in {{<<"signatures", "[]">>}, {<<"signatures", Bad>>},
                                {<<"signatures", "[]">>, <<"activeSignature", "0">>, <<"foo", "bar">>}}}
        \cup {JArr(<<eJunk>>)}

RenameReplies ==
    CommonReplies
        \cup {JChanges({}, ch) : ch \in Changes}
        \cup {JChanges({<<"foo", "bar">>}, {<<"file:///a.py", <<BrokenEdit>>>>})}
        \cup {JArr(<<eJunk>>)}

InitializeReplies == {JNull, JObj({<<"capabilities", "{}">>})}

\* --------------------------------------------------- Python on JSON values

\* `k in r` for a dict (a key) or a list (an element equal to the string k);
\* None is not a container (the callers raise TypeError).
PyIn(k, r) ==
    \/ r.t = "obj" /\ Has(r.o, k)
    \/ r.t = "arr" /\ \E i \in 1..Len(r.a) : r.a[i] = StrElem(k)

\* `for x in r`: a list's elements, a dict's keys
Iter(r) == IF r.t = "arr" THEN r.a ELSE [i \in 1..Cardinality(Keys(r.o)) |-> StrElem(SeqOf(Keys(r.o))[i])]

\* `if r`: None, {} and [] are falsy
Truthy(r) == \/ r.t = "obj" /\ r.o # {}
             \/ r.t = "arr" /\ r.a # << >>

\* T.model_validate(r) on the whole reply
TopValid(T, r) == r.t = "obj" /\ Valid(T, ObjElem(r.o))
TopValidated(T, r) == Validated(T, ObjElem(r.o))

\* CompletionList.model_validate(r): isIncomplete and items, every item a CompletionItem
CompletionListValid(r) ==
    /\ r.t = "obj"
    /\ Has(r.o, "isIncomplete") /\ Get(r.o, "isIncomplete") # Bad
    /\ Has(r.o, "items") /\ AllValid(CompletionItem, r.a)

\* ------------------------------------------------------- handler results

Return(type, items) == [kind |-> "return", type |-> type, items |-> items, ch |-> {}, err |-> ""]
ReturnEdit(ch) == [kind |-> "return", type |-> "WorkspaceEdit", items |-> NoSeq, ch |-> ch, err |-> ""]
Raise(err) == [kind |-> "raise", type |-> "", items |-> NoSeq, ch |-> {}, err |-> err]

\* ------------------------------------------------------------ the endpoint

\* One operation on self.lsp_endpoint
StartStep == [kind |-> "start", method |-> "", params |-> {}]
StopStep == [kind |-> "stop", method |-> "", params |-> {}]
CallStep(method, params) == [kind |-> "call", method |-> method, params |-> params]
NotifyStep(method, params) == [kind |-> "notify", method |-> method, params |-> params]

\* What the endpoint may raise
EndpointErrors == {"TransportError", "ServerError"}

\* The endpoint's part in an invocation of n endpoint operations: which of
\* them raises (0: none), what it raises, and the reply to the request.
Envs(n, replies) ==
    {[fail |-> 0, err |-> "", reply |-> r] : r \in replies}
        \cup {[fail |-> k, err |-> e, reply |-> NoReply] : k \in 1..n, e \in EndpointErrors}

Out(w, result, r, f) == [wire |-> w, result |-> result, reply |-> r, fault |-> f]

\* The handler runs the endpoint operations of plan in order; the first one
\* that raises ends it with that error, else it returns what it decodes from
\* the reply.
Exec(plan, env, answered, decoded) ==
    IF env.fail \in 1..Len(plan)
    THEN Out(SubSeq(plan, 1, env.fail), Raise(env.err), NoReply, env.err)
    ELSE Out(plan, decoded, IF answered THEN env.reply ELSE NoReply, "")

\* ------------------------------------------------------------- arguments

Doc == PyModel("TextDocumentIdentifier")
DocItem == PyModel("TextDocumentItem")
Position == PyModel("Position")
Tokens == {None, PyStr("token")}

InitializeArgs ==
    {{<<"processId", a>>, <<"rootPath", b>>, <<"rootUri", c>>,
      <<"initializationOptions", d>>, <<"capabilities", e>>, <<"trace", f>>,
      <<"workspaceFolders", g>>} :
        a \in {None, PyInt("4242")}, b \in {None}, c \in {None, PyStr("file:///w")},
        d \in {None},
        e \in {None, PyDict("capabilities"), PyModel("capabilities")},
        f \in {None, PyStr("off")}, g \in {None}}
NoArgs == {}
DidOpenArgs == {{<<"textDocument", DocItem>>}}
DidChangeArgs == {{<<"textDocument", DocItem>>, <<"contentChanges", PyList("changes")>>}}
DocArgs == {{<<"textDocument", Doc>>}}
PositionArgs == {{<<"textDocument", Doc>>, <<"position", Position>>}}
TokenArgs ==
    {{<<"textDocument", Doc>>, <<"position", Position>>, <<"workDoneToken", w>>,
      <<"partialResultToken", q>>} : w \in Tokens, q \in Tokens}
ContextArgs(c) == {{<<"textDocument", Doc>>, <<"position", Position>>, <<"context", PyModel(c)>>}}
RenameArgs ==
    {{<<"text_document", Doc>>, <<"position", Position>>, <<"new_name", PyStr("x")>>}}

\* --------------------------------------------------------------- handlers

initialize_params(args) ==
    {<<"processId", Get(args, "processId")>>,
     <<"rootPath", Get(args, "rootPath")>>,
     <<"rootUri", Get(args, "rootUri")>>,
     <<"initializationOptions", Get(args, "initializationOptions")>>,
     <<"capabilities",
       IF Get(args, "capabilities").t = "dict"
       THEN Get(args, "capabilities")
       ELSE model_dump(Get(args, "capabilities"))>>,
     <<"trace", Get(args, "trace")>>,
     <<"workspaceFolders", Get(args, "workspaceFolders")>>}

\* initialize without its capabilities check: the endpoint is started, then
\* capabilities.model_dump fails on None
initialize_unchecked(args, env) ==
    IF Get(args, "capabilities") = None
    THEN IF env.fail = 1
         THEN Out(<<StartStep>>, Raise(env.err), NoReply, env.err)
         ELSE Out(<<StartStep>>, Raise("AttributeError"), NoReply, "")
    ELSE Exec(<<StartStep, CallStep("initialize", initialize_params(args))>>, env, TRUE,
              Return("raw", NoSeq))

\* initialize sending its request before it starts the endpoint
initialize_request_first(args, env) ==
    IF Get(args, "capabilities") = None
    THEN Out(<< >>, Raise("ValueError"), NoReply, "")
    ELSE Exec(<<CallStep("initialize", initialize_params(args)), StartStep>>, env, TRUE,
              Return("raw", NoSeq))

initialize(args, env) ==
    IF Get(args, "capabilities") = None
    THEN Out(<< >>, Raise("ValueError"), NoReply, "")
    ELSE Exec(<<StartStep, CallStep("initialize", initialize_params(args))>>, env, TRUE,
              Return("raw", NoSeq))

initialized(args, env) ==
    Exec(<<NotifyStep("initialized", {})>>, env, FALSE, Return("None", NoSeq))

shutdown(args, env) ==
    Exec(<<StopStep, CallStep("shutdown", {})>>, env, TRUE, Return("raw", NoSeq))

exit(args, env) ==
    Exec(<<NotifyStep("exit", {})>>, env, FALSE, Return("None", NoSeq))

didOpen(args, env) ==
    Exec(<<NotifyStep("textDocument/didOpen", {<<"textDocument", Get(args, "textDocument")>>})>>,
         env, FALSE, Return("None", NoSeq))

didChange(args, env) ==
    Exec(<<NotifyStep("textDocument/didChange",
                      {<<"textDocument", Get(args, "textDocument")>>,
                       <<"contentChanges", Get(args, "contentChanges")>>})>>,
         env, FALSE, Return("None", NoSeq))

PositionParams(args) ==
    {<<"textDocument", Get(args, "textDocument")>>, <<"position", Get(args, "position")>>}

\* documentSymbol falling back to SymbolInformation element by element
documentSymbol_decode_each(r) ==
    IF r.t = "null" THEN Raise("TypeError")
    ELSE IF \A i \in 1..Len(Iter(r)) :
                Valid(DocumentSymbol, Iter(r)[i]) \/ Valid(SymbolInformation, Iter(r)[i])
         THEN Return("list",
                     [i \in 1..Len(Iter(r)) |->
                        IF Valid(DocumentSymbol, Iter(r)[i])
                        THEN Validated(DocumentSymbol, Iter(r)[i])
                        ELSE Validated(SymbolInformation, Iter(r)[i])])
         ELSE Raise("ValidationError")

documentSymbol_decode(r) ==
    IF r.t = "null" THEN Raise("TypeError")
    ELSE IF AllValid(DocumentSymbol, Iter(r))
         THEN Return("list", ValidatedAll(DocumentSymbol, Iter(r)))
         ELSE IF AllValid(SymbolInformation, Iter(r))
              THEN Return("list", ValidatedAll(SymbolInformation, Iter(r)))
              ELSE Raise("ValidationError")

\* documentSymbol sending its request again for the SymbolInformation fallback
documentSymbol_resend(args, env) ==
    LET step == CallStep("textDocument/documentSymbol",
                         {<<"textDocument", model_dump(Get(args, "textDocument"))>>})
    IN  IF env.fail = 0 /\ env.reply.t # "null" /\ ~AllValid(DocumentSymbol, Iter(env.reply))
        THEN Out(<<step, step>>, documentSymbol_decode(env.reply), env.reply, "")
        ELSE Exec(<<step>>, env, TRUE, documentSymbol_decode(env.reply))

documentSymbol(args, env) ==
    Exec(<<CallStep("textDocument/documentSymbol",
                    {<<"textDocument", model_dump(Get(args, "textDocument"))>>})>>,
         env, TRUE, documentSymbol_decode(env.reply))

typeDefinition_decode(r) ==
    IF r.t = "null" THEN Return("None", NoSeq)
    ELSE IF AllValid(Location, Iter(r))
         THEN Return("list", ValidatedAll(Location, Iter(r)))
         ELSE Raise("ValidationError")

typeDefinition(args, env) ==
    Exec(<<CallStep("textDocument/typeDefinition", PositionParams(args))>>,
         env, TRUE, typeDefinition_decode(env.reply))

signatureHelp_decode(r) ==
    IF ~Truthy(r) THEN Return("None", NoSeq)
    ELSE IF TopValid(SignatureHelp, r)
         THEN Return("SignatureHelp", <<TopValidated(SignatureHelp, r)>>)
         ELSE Raise("ValidationError")

signatureHelp(args, env) ==
    Exec(<<CallStep("textDocument/signatureHelp", PositionParams(args))>>,
         env, TRUE, signatureHelp_decode(env.reply))

\* completion unwrapping a CompletionList into its items
completion_decode_unwrap(r) ==
    IF r.t = "null" THEN Raise("TypeError")
    ELSE IF PyIn("isIncomplete", r)
         THEN IF CompletionListValid(r)
              THEN Return("list", ValidatedAll(CompletionItem, r.a))
              ELSE Raise("ValidationError")
         ELSE IF AllValid(CompletionItem, Iter(r))
              THEN Return("list", ValidatedAll(CompletionItem, Iter(r)))
              ELSE Raise("ValidationError")

completion_decode(r) ==
    IF r.t = "null" THEN Raise("TypeError")
    ELSE IF PyIn("isIncomplete", r)
         THEN IF CompletionListValid(r)
              THEN Return("CompletionList", ValidatedAll(CompletionItem, r.a))
              ELSE Raise("ValidationError")
         ELSE IF AllValid(CompletionItem, Iter(r))
              THEN Return("list", ValidatedAll(CompletionItem, Iter(r)))
              ELSE Raise("ValidationError")

completion(args, env) ==
    Exec(<<CallStep("textDocument/completion",
                    PositionParams(args) \cup {<<"context", Get(args, "context")>>})>>,
         env, TRUE, completion_decode(env.reply))

declaration_decode(r) ==
    IF r.t = "null" THEN Return("None", NoSeq)
    ELSE IF PyIn("uri", r)
         THEN IF TopValid(Location, r)
              THEN Return("Location", <<TopValidated(Location, r)>>)
              ELSE Raise("ValidationError")
         ELSE IF AllValid(Location, Iter(r))
              THEN Return("list", ValidatedAll(Location, Iter(r)))
              ELSE IF AllValid(LocationLink, Iter(r))
                   THEN Return("list", ValidatedAll(LocationLink, Iter(r)))
                   ELSE Raise("ValidationError")

declaration(args, env) ==
    Exec(<<CallStep("textDocument/declaration", PositionParams(args))>>,
         env, TRUE, declaration_decode(env.reply))

\* definition probing LocationLink before Location
definition_decode_linkfirst(r) ==
    IF r.t = "null" THEN Return("None", NoSeq)
    ELSE IF PyIn("uri", r)
         THEN IF TopValid(Location, r)
              THEN Return("Location", <<TopValidated(Location, r)>>)
              ELSE Raise("ValidationError")
         ELSE IF AllValid(LocationLink, Iter(r))
              THEN Return("list", ValidatedAll(LocationLink, Iter(r)))
              ELSE IF AllValid(Location, Iter(r))
                   THEN Return("list", ValidatedAll(Location, Iter(r)))
                   ELSE Raise("ValidationError")

definition_decode(r) ==
    IF r.t = "null" THEN Return("None", NoSeq)
    ELSE IF PyIn("uri", r)
         THEN IF TopValid(Location, r)
              THEN Return("Location", <<TopValidated(Location, r)>>)
              ELSE Raise("ValidationError")
         ELSE IF AllValid(Location, Iter(r))
              THEN Return("list", ValidatedAll(Location, Iter(r)))
              ELSE IF AllValid(LocationLink, Iter(r))
                   THEN Return("list", ValidatedAll(LocationLink, Iter(r)))
                   ELSE Raise("ValidationError")

definition(args, env) ==
    Exec(<<CallStep("textDocument/definition", PositionParams(args))>>,
         env, TRUE, definition_decode(env.reply))

\* a TextEdit whose end is read from range.start
TextEdit_start_twice(edit) ==
    [range_start |-> Pos(edit.range.start.line, edit.range.start.character),
     range_end |-> Pos(edit.range.start.line, edit.range.start.character),
     new_text |-> edit.newText]

\* TextEdit(range_start=Position(**edit["range"]["start"]),
\*          range_end=Position(**edit["range"]["end"]), new_text=edit["newText"])
TextEdit(edit) ==
    [range_start |-> Pos(edit.range.start.line, edit.range.start.character),
     range_end |-> Pos(edit.range.end.line, edit.range.end.character),
     new_text |-> edit.newText]

TextEdits(edits) == [i \in 1..Len(edits) |-> TextEdit(edits[i])]

\* response.get("changes", {}).items(): the mapping under "changes", or none
rename_changes(r) == IF Has(r.o, "changes") THEN r.ch ELSE {}

rename_decode(r) ==
    IF r.t # "obj" THEN Raise("AttributeError")
    ELSE IF \E p \in rename_changes(r) : \E i \in 1..Len(p[2]) :
                p[2][i].has # {"range", "newText"}
         THEN Raise("KeyError")
         ELSE ReturnEdit({<<p[1], TextEdits(p[2])>> : p \in rename_changes(r)})

rename(args, env) ==
    Exec(<<CallStep("textDocument/rename",
                    {<<"textDocument", Get(args, "text_document")>>,
                     <<"position", model_dump(Get(args, "position"))>>,
                     <<"newName", Get(args, "new_name")>>})>>,
         env, TRUE, rename_decode(env.reply))

references_decode(r) ==
    IF r.t = "null" THEN Raise("TypeError")
    ELSE IF AllValid(Location, Iter(r))
         THEN Return("list", ValidatedAll(Location, Iter(r)))
         ELSE Raise("ValidationError")

references(args, env) ==
    Exec(<<CallStep("textDocument/references",
                    PositionParams(args) \cup {<<"context", Get(args, "context")>>})>>,
         env, TRUE, references_decode(env.reply))

\* ------------------------------------------------------------ the machine

\* LspClient(lsp_endpoint): nothing has been sent
Init ==
    /\ last = [op |-> "__init__", args |-> {<<"lsp_endpoint", PyModel("LspEndpoint")>>},
               result |-> Return("None", NoSeq)]
    /\ wire = << >>
    /\ reply = NoReply
    /\ fault = ""
    /\ handshake = "none"

\* History of the handshake: initialize has returned, then initialized was sent
Handshake(op, out) ==
    IF op = "initialize" /\ out.result.kind = "return" /\ handshake = "none"
    THEN "initialize_returned"
    ELSE IF op = "initialized" /\ out.result.kind = "return" /\ handshake = "initialize_returned"
         THEN "complete"
         ELSE handshake

\* The record of an invocation
Invocation(op, args, out) == [op |-> op, args |-> args, result |-> out.result]

Initialize ==
    \E a \in InitializeArgs, e \in Envs(2, InitializeReplies) :
        LET out == initialize(a, e) IN
        /\ last' = Invocation("initialize", a, out)
        /\ wire' = out.wire
        /\ reply' = out.reply
        /\ fault' = out.fault
        /\ handshake' = Handshake("initialize", out)

Initialized ==
    \E a \in {NoArgs}, e \in Envs(1, {JNull}) :
        LET out == initialized(a, e) IN
        /\ last' = Invocation("initialized", a, out)
        /\ wire' = out.wire
        /\ reply' = out.reply
        /\ fault' = out.fault
        /\ handshake' = Handshake("initialized", out)

Shutdown ==
    \E a \in {NoArgs}, e \in Envs(2, {JNull}) :
        LET out == shutdown(a, e) IN
        /\ last' = Invocation("shutdown", a, out)
        /\ wire' = out.wire
        /\ reply' = out.reply
        /\ fault' = out.fault
        /\ handshake' = Handshake("shutdown", out)

Exit ==
    \E a \in {NoArgs}, e \in Envs(1, {JNull}) :
        LET out == exit(a, e) IN
        /\ last' = Invocation("exit", a, out)
        /\ wire' = out.wire
        /\ reply' = out.reply
        /\ fault' = out.fault
        /\ handshake' = Handshake("exit", out)

DidOpen ==
    \E a \in DidOpenArgs, e \in Envs(1, {JNull}) :
        LET out == didOpen(a, e) IN
        /\ last' = Invocation("didOpen", a, out)
        /\ wire' = out.wire
        /\ reply' = out.reply
        /\ fault' = out.fault
        /\ handshake' = Handshake("didOpen", out)

DidChange ==
    \E a \in DidChangeArgs, e \in Envs(1, {JNull}) :
        LET out == didChange(a, e) IN
        /\ last' = Invocation("didChange", a, out)
        /\ wire' = out.wire
        /\ reply' = out.reply
        /\ fault' = out.fault
        /\ handshake' = Handshake("didChange", out)

DocumentSymbolOp ==
    \E a \in DocArgs, e \in Envs(1, SymbolReplies) :
        LET out == documentSymbol(a, e) IN
        /\ last' = Invocation("documentSymbol", a, out)
        /\ wire' = out.wire
        /\ reply' = out.reply
        /\ fault' = out.fault
        /\ handshake' = Handshake("documentSymbol", out)

TypeDefinition ==
    \E a \in PositionArgs, e \in Envs(1, LocationReplies) :
        LET out == typeDefinition(a, e) IN
        /\ last' = Invocation("typeDefinition", a, out)
        /\ wire' = out.wire
        /\ reply' = out.reply
        /\ fault' = out.fault
        /\ handshake' = Handshake("typeDefinition", out)

SignatureHelpOp ==
    \E a \in TokenArgs, e \in Envs(1, SignatureReplies) :
        LET out == signatureHelp(a, e) IN
        /\ last' = Invocation("signatureHelp", a, out)
        /\ wire' = out.wire
        /\ reply' = out.reply
        /\ fault' = out.fault
        /\ handshake' = Handshake("signatureHelp", out)

Completion ==
    \E a \in ContextArgs("CompletionContext"), e \in Envs(1, CompletionReplies) :
        LET out == completion(a, e) IN
        /\ last' = Invocation("completion", a, out)
        /\ wire' = out.wire
        /\ reply' = out.reply
        /\ fault' = out.fault
        /\ handshake' = Handshake("completion", out)

Declaration ==
    \E a \in PositionArgs, e \in Envs(1, LocationReplies) :
        LET out == declaration(a, e) IN
        /\ last' = Invocation("declaration", a, out)
        /\ wire' = out.wire
        /\ reply' = out.reply
        /\ fault' = out.fault
        /\ handshake' = Handshake("declaration", out)

Definition ==
    \E a \in TokenArgs, e \in Envs(1, LocationReplies) :
        LET out == definition(a, e) IN
        /\ last' = Invocation("definition", a, out)
        /\ wire' = out.wire
        /\ reply' = out.reply
        /\ fault' = out.fault
        /\ handshake' = Handshake("definition", out)

Rename ==
    \E a \in RenameArgs, e \in Envs(1, RenameReplies) :
        LET out == rename(a, e) IN
        /\ last' = Invocation("rename", a, out)
        /\ wire' = out.wire
        /\ reply' = out.reply
        /\ fault' = out.fault
        /\ handshake' = Handshake("rename", out)

References ==
    \E a \in ContextArgs("ReferenceContext"), e \in Envs(1, LocationReplies) :
        LET out == references(a, e) IN
        /\ last' = Invocation("references", a, out)
        /\ wire' = out.wire
        /\ reply' = out.reply
        /\ fault' = out.fault
        /\ handshake' = Handshake("references", out)

Next ==
    \/ Initialize
    \/ Initialized
    \/ Shutdown
    \/ Exit
    \/ DidOpen
    \/ DidChange
    \/ DocumentSymbolOp
    \/ TypeDefinition
    \/ SignatureHelpOp
    \/ Completion
    \/ Declaration
    \/ Definition
    \/ Rename
    \/ References

Spec == Init /\ [][Next]_vars

\* ================================================================= claims

DocumentCalls ==
    {"documentSymbol", "typeDefinition", "signatureHelp", "completion", "declaration",
     "definition", "rename", "references"}

\* the requests and notifications of an invocation (start and stop are control)
Dispatches(w) == SelectSeq(w, LAMBDA st : st.kind \in {"call", "notify"})

\* the request of the last invocation was answered
Answered == reply # NoReply

Supplied(k) == Has(last.args, k) /\ Get(last.args, k) # None

\* ------------------------------------------------------------------- C1

\* C1: a document-scoped Call invoked before initialize has returned and
\* initialized has been sent fails with LifecycleViolation and nothing is
\* forwarded to the endpoint.
C1_LifecycleEnforced ==
    (last.op \in DocumentCalls /\ handshake # "complete")
        => (last.result = Raise("LifecycleViolation") /\ wire = << >>)

\* ------------------------------------------------------------------- C2

\* C2: initialize without capabilities fails with the invalid-argument error
\* (ValueError) and touches the endpoint in no way: no start, no request, no
\* notification, whatever the other arguments are.
C2_MissingCapabilities ==
    (last.op = "initialize" /\ ~Supplied("capabilities"))
        => (last.result = Raise("ValueError") /\ wire = << >> /\ reply = NoReply /\ fault = "")

C2_Witness ==
    /\ last.op = "initialize"
    /\ ~Supplied("capabilities")
    /\ Supplied("processId") /\ Supplied("rootUri") /\ Supplied("trace")
    /\ last.result.kind = "raise"

\* ------------------------------------------------------------------- C3

\* the candidate shapes of a method's reply (the disambiguation table)
MatchesShape(op, r) ==
    CASE op = "documentSymbol" ->
            r.t = "arr" /\ (AllValid(DocumentSymbol, r.a) \/ AllValid(SymbolInformation, r.a))
      [] op \in {"declaration", "definition"} ->
            \/ r.t = "null"
            \/ TopValid(Location, r)
            \/ r.t = "arr" /\ (AllValid(Location, r.a) \/ AllValid(LocationLink, r.a))
      [] op = "completion" ->
            CompletionListValid(r) \/ (r.t = "arr" /\ AllValid(CompletionItem, r.a))
      [] op = "typeDefinition" -> r.t = "null" \/ (r.t = "arr" /\ AllValid(Location, r.a))
      [] op = "references" -> r.t = "arr" /\ AllValid(Location, r.a)
      [] OTHER -> TRUE

\* C3: a reply that matches none of the method's candidate shapes makes the
\* operation fail; it never returns null or an empty sequence for it.
C3_MalformedRejected ==
    (Answered /\ ~MatchesShape(last.op, reply)) => last.result.kind = "raise"

\* ------------------------------------------------------------------- C4

\* C4: declaration and definition decide their result by the same ordered
\* probes: null gives None (not an empty sequence); else a top-level uri key
\* gives one Location; else a sequence of Location when every element
\* validates as Location, and a sequence of LocationLink only when that fails
\* and every element validates as LocationLink; never a mix.
C4_ProbeOrder ==
    (last.op \in {"declaration", "definition"} /\ Answered) =>
        LET res == last.result
            es == Iter(reply)
            keyed == reply.t = "obj" /\ Has(reply.o, "uri")
        IN  /\ (reply.t = "null") <=> (res = Return("None", NoSeq))
            /\ keyed => /\ res.kind = "return"
                            => res = Return("Location", <<TopValidated(Location, reply)>>)
                        /\ TopValid(Location, reply) => res.kind = "return"
            /\ (reply.t # "null" /\ ~keyed) =>
                /\ AllValid(Location, es) <=> res = Return("list", ValidatedAll(Location, es))
                /\ (~AllValid(Location, es) /\ AllValid(LocationLink, es))
                       <=> (res.kind = "return"
                              /\ \E i \in 1..Len(res.items) : res.items[i].type = "LocationLink")
                /\ res.kind = "return" =>
                       /\ res.type = "list"
                       /\ Len(res.items) = Len(es)
                       /\ \A i, j \in 1..Len(res.items) : res.items[i].type = res.items[j].type
                       /\ \A i \in 1..Len(res.items) : res.items[i].f \subseteq es[i].o

C4_Witness ==
    /\ last.op = "definition"
    /\ reply = JArr(<<eLink, eLocLink>>)
    /\ last.result.kind = "return"
    /\ Len(last.result.items) = 2
    /\ last.result.items[2].type = "LocationLink"

\* ------------------------------------------------------------------- C5

\* C5: documentSymbol decodes the array as DocumentSymbol when every element
\* validates as DocumentSymbol, else the whole array as SymbolInformation; the
\* result keeps the reply's length and order and never mixes the two.
C5_SymbolShapes ==
    (last.op = "documentSymbol" /\ Answered /\ reply.t # "null") =>
        LET res == last.result
            es == Iter(reply)
        IN  /\ AllValid(DocumentSymbol, es) <=> res = Return("list", ValidatedAll(DocumentSymbol, es))
            /\ (~AllValid(DocumentSymbol, es) /\ AllValid(SymbolInformation, es))
                   <=> (res.kind = "return"
                          /\ \E i \in 1..Len(res.items) : res.items[i].type = "SymbolInformation")
            /\ res.kind = "return" =>
                   /\ res.type = "list"
                   /\ Len(res.items) = Len(es)
                   /\ \A i, j \in 1..Len(res.items) : res.items[i].type = res.items[j].type
                   /\ \A i \in 1..Len(res.items) : res.items[i].f \subseteq es[i].o

C5_Witness ==
    /\ last.op = "documentSymbol"
    /\ reply = JArr(<<eDocSymInfo, eSymInfo>>)
    /\ last.result.kind = "return"
    /\ last.result.items[1].type = "SymbolInformation"
    /\ last.result.items[2].type = "SymbolInformation"

\* ------------------------------------------------------------------- C6

\* C6: completion returns a CompletionList exactly when the reply is an object
\* with a top-level isIncomplete key, else the reply's elements as a sequence
\* of CompletionItem in order; a bare array is never a CompletionList.
C6_WrapperDiscriminates ==
    (last.op = "completion" /\ Answered) =>
        LET res == last.result
            wrapped == reply.t = "obj" /\ Has(reply.o, "isIncomplete")
        IN  /\ res.kind = "return" => (res.type = "CompletionList" <=> wrapped)
            /\ res.kind = "return" => res.type \in {"CompletionList", "list"}
            /\ CompletionListValid(reply)
                   => res = Return("CompletionList", ValidatedAll(CompletionItem, reply.a))
            /\ (reply.t = "arr" /\ AllValid(CompletionItem, reply.a))
                   => res = Return("list", ValidatedAll(CompletionItem, reply.a))
            /\ (res.kind = "return" /\ res.type = "list")
                   => res.items = ValidatedAll(CompletionItem, Iter(reply))

C6_Witness ==
    /\ last.op = "completion"
    /\ reply.t = "obj"
    /\ Len(reply.a) = 2
    /\ last.result.kind = "return"
    /\ last.result.type = "CompletionList"

\* ------------------------------------------------------------------- C7

\* C7: rename rebuilds the reply's changes into a WorkspaceEdit with the same
\* URI keys, the same number of edits per URI in the same order, each edit's
\* start, end and text those of the wire edit; no changes key gives an empty
\* mapping.
C7_RenameRebuilds ==
    (last.op = "rename" /\ Answered) =>
        LET res == last.result
            wireCh == IF Has(reply.o, "changes") THEN reply.ch ELSE {}
        IN  /\ (reply.t = "obj" /\ ~Has(reply.o, "changes")) => res = ReturnEdit({})
            /\ (reply.t = "obj"
                  /\ \A p \in wireCh : \A i \in 1..Len(p[2]) : p[2][i].has = {"range", "newText"})
                   => res.kind = "return"
            /\ res.kind = "return" =>
                /\ res.type = "WorkspaceEdit"
                /\ Keys(res.ch) = Keys(wireCh)
                /\ \A u \in Keys(wireCh) :
                    LET got == Get(res.ch, u)
                        sent == Get(wireCh, u)
                    IN  /\ Len(got) = Len(sent)
                        /\ \A i \in 1..Len(sent) :
                            /\ got[i].range_start = sent[i].range.start
                            /\ got[i].range_end = sent[i].range.end
                            /\ got[i].new_text = sent[i].newText

C7_Witness ==
    /\ last.op = "rename"
    /\ last.result.kind = "return"
    /\ Cardinality(last.result.ch) = 2
    /\ \E p \in last.result.ch : Len(p[2]) = 2 /\ p[2][1] # p[2][2]

\* ------------------------------------------------------------------- C8

\* the wire-method table
WireTable(op) ==
    CASE op = "initialize" -> [method |-> "initialize", kind |-> "call"]
      [] op = "initialized" -> [method |-> "initialized", kind |-> "notify"]
      [] op = "shutdown" -> [method |-> "shutdown", kind |-> "call"]
      [] op = "exit" -> [method |-> "exit", kind |-> "notify"]
      [] op = "didOpen" -> [method |-> "textDocument/didOpen", kind |-> "notify"]
      [] op = "didChange" -> [method |-> "textDocument/didChange", kind |-> "notify"]
      [] op = "documentSymbol" -> [method |-> "textDocument/documentSymbol", kind |-> "call"]
      [] op = "typeDefinition" -> [method |-> "textDocument/typeDefinition", kind |-> "call"]
      [] op = "signatureHelp" -> [method |-> "textDocument/signatureHelp", kind |-> "call"]
      [] op = "completion" -> [method |-> "textDocument/completion", kind |-> "call"]
      [] op = "declaration" -> [method |-> "textDocument/declaration", kind |-> "call"]
      [] op = "definition" -> [method |-> "textDocument/definition", kind |-> "call"]
      [] op = "rename" -> [method |-> "textDocument/rename", kind |-> "call"]
      [] op = "references" -> [method |-> "textDocument/references", kind |-> "call"]

TableOps ==
    DocumentCalls \cup {"initialize", "initialized", "shutdown", "exit", "didOpen", "didChange"}

\* the one dispatch is the table's, and what it raises reaches the caller as is
DispatchAsTabled ==
    LET d == Dispatches(wire)
    IN  Len(d) = 1 =>
            /\ d[1].method = WireTable(last.op).method
            /\ d[1].kind = WireTable(last.op).kind
            /\ fault # "" => last.result = Raise(fault)

\* the invocation ended before its dispatch: initialize refused its arguments,
\* or the control action (start, stop) raised
EndedBeforeDispatch ==
    \/ last.op = "initialize" /\ ~Supplied("capabilities")
         /\ wire = << >> /\ last.result = Raise("ValueError")
    \/ last.op = "initialize" /\ wire = <<StartStep>>
         /\ fault # "" /\ last.result = Raise(fault)
    \/ last.op = "shutdown" /\ wire = <<StopStep>>
         /\ fault # "" /\ last.result = Raise(fault)

\* C8 as stated: every invocation of a tabled operation performs exactly one
\* dispatch, the table's, and an error it raises reaches the caller unchanged.
C8_ExactlyOneDispatch ==
    last.op \in TableOps => (Len(Dispatches(wire)) = 1 /\ DispatchAsTabled)

\* C8 as amended: at most one dispatch, the table's, its error unchanged and
\* never re-sent; none only when the invocation ended before its dispatch.
C8_AtMostOneDispatch ==
    last.op \in TableOps =>
        /\ Len(Dispatches(wire)) <= 1
        /\ DispatchAsTabled
        /\ Len(Dispatches(wire)) = 0 <=> EndedBeforeDispatch

C8_Witness ==
    /\ last.op = "documentSymbol"
    /\ Len(Dispatches(wire)) = 1
    /\ fault = "ServerError"
    /\ last.result = Raise("ServerError")

\* ------------------------------------------------------------------- C9

\* the protocol key of a handler's parameter
ProtocolKey(name) ==
    CASE name = "text_document" -> "textDocument"
      [] name = "new_name" -> "newName"
      [] OTHER -> name

\* C9: the parameter object handed to the endpoint holds every argument the
\* caller supplied under its protocol key, and an argument not supplied is
\* absent or null.
C9_SuppliedArgumentsSent ==
    (last.op \in TableOps /\ Len(Dispatches(wire)) = 1) =>
        LET params == Dispatches(wire)[1].params
        IN  \A p \in last.args :
                IF p[2] # None
                THEN /\ Has(params, ProtocolKey(p[1]))
                     /\ Get(params, ProtocolKey(p[1])) \in {p[2], model_dump(p[2])}
                ELSE ~Has(params, ProtocolKey(p[1])) \/ Get(params, ProtocolKey(p[1])) = None

\* ------------------------------------------------------------------ C10

\* C10: the initialize request is sent only after the endpoint was started in
\* the same invocation, the shutdown request only after it was stopped; the
\* control action is the handler's first endpoint operation, never skipped.
C10_ControlBeforeRequest ==
    /\ \A i \in 1..Len(wire) :
        /\ (wire[i].kind = "call" /\ wire[i].method = "initialize")
               => \E j \in 1..(i - 1) : wire[j] = StartStep
        /\ (wire[i].kind = "call" /\ wire[i].method = "shutdown")
               => \E j \in 1..(i - 1) : wire[j] = StopStep
    /\ (last.op = "initialize" /\ Supplied("capabilities")) => (wire # << >> /\ wire[1] = StartStep)
    /\ last.op = "shutdown" => (wire # << >> /\ wire[1] = StopStep)

C10_Witness ==
    /\ last.op = "initialize"
    /\ Supplied("capabilities")
    /\ wire = <<StartStep, CallStep("initialize", initialize_params(last.args))>>
    /\ last.result.kind = "return"

====
